---- MODULE Spec2Model ----
(***************************************************************************)
(* examples/main.py of PM4Rs/promi: a script that prints a banner, imports *)
(* an XES event log with pm4py, exports it again, and prints how long the  *)
(* import and the export took.                                             *)
(*                                                                         *)
(* The script is modelled statement by statement.  The two library calls   *)
(* are opaque: each is split into its invocation and its outcome (it       *)
(* returns, or it raises and the exception is unhandled).  time() is       *)
(* modelled as a non-decreasing integer clock counted in ticks; the        *)
(* ':.3f' format of line 18 rounds a duration to whole milliseconds.       *)
(***************************************************************************)
EXTENDS Integers, Sequences, FiniteSets

VARIABLES
    pc,         \* index into Program of the statement to execute next
    outcome,    \* "running", "ok" (exit status 0) or "failed" (unhandled exception)
    active,     \* the library call in progress: "none", "import" or "export"
    clock,      \* the wall clock, in ticks
    env,        \* the module namespace: a function from the names bound so far
    stdout,     \* the lines printed by the script
    stderr,     \* what the interpreter reports about an unhandled exception
    importArgs, \* the argument of every xes_import_factory.apply call
    exportArgs, \* the arguments of every xes_exporter.export_log call
    returned,   \* the value of every return of xes_import_factory.apply
    hist        \* history: every call made and every library outcome, with its time

vars == <<pc, outcome, active, clock, env, stdout, stderr,
          importArgs, exportArgs, returned, hist>>

----------------------------------------------------------------------------
(* Bounds of the model *)

\* the longest time, in ticks, one step may take
MaxStep == 1

\* the number of distinct event logs the import may return
NumLogs == 2

\* clock ticks per millisecond (the clock is finer than the printed precision)
TicksPerMilli == 2

Logs == 1..NumLogs

----------------------------------------------------------------------------
(* The script's constants and its statements *)

in_path == "../static/xes/book/bigger-example.xes"

out_path == "/tmp/out.xes"

\* A plausible slip: the first sample is taken before the banner is printed.
ProgramSampleBeforeBanner ==
    <<"sample_ts", "print_banner", "import", "sample_tm",
      "export", "sample_te", "print_durations">>

\* A plausible slip: the end of the read and the start of the write are
\* sampled separately.
ProgramDoubleSample ==
    <<"print_banner", "sample_ts", "import", "sample_tm", "sample_tm",
      "export", "sample_te", "print_durations">>

\* The statements of the script in program order (lines 10, 12..16, 18).
Program ==
    <<"print_banner", "sample_ts", "import", "sample_tm",
      "export", "sample_te", "print_durations">>

\* Binding a name in the module namespace.
Assign(e, name, value) ==
    [n \in DOMAIN e \cup {name} |-> IF n = name THEN value ELSE e[n]]

Abs(x) == IF x < 0 THEN -x ELSE x

\* f'{d:.3f}' of a duration of d ticks: the nearest whole number of
\* milliseconds.  An exact tie is decided by the binary representation of
\* the float, so both neighbours are possible.
Fmt3(d) ==
    {m \in {d \div TicksPerMilli, (d \div TicksPerMilli) + 1} :
        2 * Abs(m * TicksPerMilli - d) <= TicksPerMilli}

\* The process exit status of a finished run.
ExitStatus == IF outcome = "ok" THEN 0 ELSE 1

\* The statement at pc is stmt, and the interpreter is about to execute it.
At(stmt) ==
    /\ outcome = "running"
    /\ active = "none"
    /\ pc \in 1..Len(Program)
    /\ Program[pc] = stmt

\* Time passes while a step executes; the step is recorded at its end.
Elapse(ev) ==
    \E d \in 0..MaxStep :
        /\ clock' = clock + d
        /\ hist' = Append(hist, [ev |-> ev, at |-> clock + d])

----------------------------------------------------------------------------
Init ==
    /\ pc = 1
    /\ outcome = "running"
    /\ active = "none"
    /\ clock = 0
    /\ env = [n \in {"in_path", "out_path"} |->
                IF n = "in_path" THEN in_path ELSE out_path]
    /\ stdout = <<>>
    /\ stderr = <<>>
    /\ importArgs = <<>>
    /\ exportArgs = <<>>
    /\ returned = <<>>
    /\ hist = <<>>

\* line 10: print(f'{in_path} --> {out_path}')
PrintBanner ==
    /\ At("print_banner")
    /\ stdout' = Append(stdout,
                   [fmt |-> "paths", a |-> env["in_path"], b |-> env["out_path"]])
    /\ Elapse("print")
    /\ pc' = pc + 1
    /\ UNCHANGED <<outcome, active, env, stderr, importArgs, exportArgs, returned>>

\* line 12: t_s = time()
SampleTs ==
    /\ At("sample_ts")
    /\ Elapse("time")
    /\ env' = Assign(env, "t_s", clock')
    /\ pc' = pc + 1
    /\ UNCHANGED <<outcome, active, stdout, stderr, importArgs, exportArgs, returned>>

\* A plausible slip: the import is handed the output path.
ImportArgOutPath == env["out_path"]

\* line 13: the argument of xes_import_factory.apply
ImportArg == env["in_path"]

\* line 13: xes_import_factory.apply(in_path) is invoked
ImportCall ==
    /\ At("import")
    /\ active' = "import"
    /\ importArgs' = Append(importArgs, ImportArg)
    /\ Elapse("import")
    /\ UNCHANGED <<pc, outcome, env, stdout, stderr, exportArgs, returned>>

\* line 13: the import returns a log, which is bound to `log`
ImportReturn ==
    /\ outcome = "running"
    /\ active = "import"
    /\ \E l \in Logs :
        /\ env' = Assign(env, "log", l)
        /\ returned' = Append(returned, l)
    /\ active' = "none"
    /\ Elapse("import_ok")
    /\ pc' = pc + 1
    /\ UNCHANGED <<outcome, stdout, stderr, importArgs, exportArgs>>

\* A plausible slip: the failure is swallowed and an empty log stands in.
ImportRaiseSwallowed ==
    /\ outcome = "running"
    /\ active = "import"
    /\ env' = Assign(env, "log", 1)
    /\ active' = "none"
    /\ Elapse("import_err")
    /\ pc' = pc + 1
    /\ UNCHANGED <<outcome, stdout, stderr, importArgs, exportArgs, returned>>

\* line 13: the import raises; nothing handles the exception
ImportRaise ==
    /\ outcome = "running"
    /\ active = "import"
    /\ active' = "none"
    /\ outcome' = "failed"
    /\ stderr' = Append(stderr, "import")
    /\ Elapse("import_err")
    /\ UNCHANGED <<pc, env, stdout, importArgs, exportArgs, returned>>

\* line 14: t_m = time()
SampleTm ==
    /\ At("sample_tm")
    /\ Elapse("time")
    /\ env' = Assign(env, "t_m", clock')
    /\ pc' = pc + 1
    /\ UNCHANGED <<outcome, active, stdout, stderr, importArgs, exportArgs, returned>>

\* A plausible slip: the export is handed another log than the imported one.
ExportLogOther == (env["log"] % NumLogs) + 1

\* line 15: the first argument of xes_exporter.export_log
ExportLog == env["log"]

\* line 15: xes_exporter.export_log(log, out_path) is invoked
ExportCall ==
    /\ At("export")
    /\ active' = "export"
    /\ exportArgs' = Append(exportArgs, <<ExportLog, env["out_path"]>>)
    /\ Elapse("export")
    /\ UNCHANGED <<pc, outcome, env, stdout, stderr, importArgs, returned>>

\* line 15: the export returns
ExportReturn ==
    /\ outcome = "running"
    /\ active = "export"
    /\ active' = "none"
    /\ Elapse("export_ok")
    /\ pc' = pc + 1
    /\ UNCHANGED <<outcome, env, stdout, stderr, importArgs, exportArgs, returned>>

\* A plausible slip: a failed export is tried again.
ExportRaiseRetry ==
    /\ outcome = "running"
    /\ active = "export"
    /\ Len(exportArgs) < 2
    /\ active' = "none"
    /\ Elapse("export_err")
    /\ UNCHANGED <<pc, outcome, env, stdout, stderr, importArgs, exportArgs, returned>>

\* line 15: the export raises; nothing handles the exception
ExportRaise ==
    /\ outcome = "running"
    /\ active = "export"
    /\ active' = "none"
    /\ outcome' = "failed"
    /\ stderr' = Append(stderr, "export")
    /\ Elapse("export_err")
    /\ UNCHANGED <<pc, env, stdout, importArgs, exportArgs, returned>>

\* line 16: t_e = time()
SampleTe ==
    /\ At("sample_te")
    /\ Elapse("time")
    /\ env' = Assign(env, "t_e", clock')
    /\ pc' = pc + 1
    /\ UNCHANGED <<outcome, active, stdout, stderr, importArgs, exportArgs, returned>>

\* line 18: t_m-t_s
ReadTime == env["t_m"] - env["t_s"]

\* A plausible slip: the write time is measured from the first sample.
WriteTimeFromStart == env["t_e"] - env["t_s"]

\* line 18: t_e-t_m
WriteTime == env["t_e"] - env["t_m"]

\* A plausible slip: a bad format specification makes the f-string raise.
PrintDurationsBadFormat ==
    /\ At("print_durations")
    /\ outcome' = "failed"
    /\ stderr' = Append(stderr, "print")
    /\ Elapse("print_err")
    /\ UNCHANGED <<pc, active, env, stdout, importArgs, exportArgs, returned>>

\* A plausible slip: the two durations are printed on two lines.
PrintDurationsTwoLines ==
    /\ At("print_durations")
    /\ \E r \in Fmt3(ReadTime), w \in Fmt3(WriteTime) :
        stdout' = stdout \o <<[fmt |-> "durations", a |-> r, b |-> r],
                              [fmt |-> "durations", a |-> w, b |-> w]>>
    /\ Elapse("print")
    /\ pc' = pc + 1
    /\ UNCHANGED <<outcome, active, env, stderr, importArgs, exportArgs, returned>>

\* line 18: print(f'read in {t_m-t_s:.3f}s, wrote in {t_e-t_m:.3f}s')
PrintDurations ==
    /\ At("print_durations")
    /\ \E r \in Fmt3(ReadTime), w \in Fmt3(WriteTime) :
        stdout' = Append(stdout, [fmt |-> "durations", a |-> r, b |-> w])
    /\ Elapse("print")
    /\ pc' = pc + 1
    /\ UNCHANGED <<outcome, active, env, stderr, importArgs, exportArgs, returned>>

\* the end of the file: the interpreter exits normally
Finish ==
    /\ outcome = "running"
    /\ active = "none"
    /\ pc = Len(Program) + 1
    /\ outcome' = "ok"
    /\ UNCHANGED <<pc, active, clock, env, stdout, stderr,
                   importArgs, exportArgs, returned, hist>>

Next ==
    \/ PrintBanner
    \/ SampleTs
    \/ ImportCall
    \/ ImportReturn
    \/ ImportRaise
    \/ SampleTm
    \/ ExportCall
    \/ ExportReturn
    \/ ExportRaise
    \/ SampleTe
    \/ PrintDurations
    \/ Finish

Spec == Init /\ [][Next]_vars

\* The interpreter is single-threaded and never pauses, and a library call
\* that is in progress comes to an outcome: some step is always taken.
FairSpec == Spec /\ WF_vars(Next)

----------------------------------------------------------------------------
(* Derived views of the history *)

\* how often event ev happened
Count(ev) == Cardinality({i \in 1..Len(hist) : hist[i].ev = ev})

\* the calls the script made, in order (library outcomes left out)
Invocations ==
    LET calls == SelectSeq(hist,
                   LAMBDA e : e.ev \in {"print", "time", "import", "export"})
    IN  [i \in 1..Len(calls) |-> calls[i].ev]

IsPrefix(s, t) ==
    /\ Len(s) <= Len(t)
    /\ \A i \in 1..Len(s) : s[i] = t[i]

DurationLines == {i \in 1..Len(stdout) : stdout[i].fmt = "durations"}

BannerLines == {i \in 1..Len(stdout) : stdout[i].fmt = "paths"}

Raised == Count("import_err") + Count("export_err") > 0

----------------------------------------------------------------------------
(* C1: export is invoked only after import has returned successfully;      *)
(* import and export are each invoked at most once, and never more than    *)
(* one of them is in progress.                                             *)
C1_ExportAfterImport ==
    /\ Count("export") > 0 =>
         /\ Count("import_ok") = 1
         /\ Count("import_err") = 0
         /\ \E i, j \in 1..Len(hist) :
              i < j /\ hist[i].ev = "import_ok" /\ hist[j].ev = "export"
    /\ Count("import") <= 1
    /\ Count("export") <= 1
    /\ active = "import" =>
         Count("import") = 1 + Count("import_ok") + Count("import_err")
    /\ active = "export" =>
         Count("export") = 1 + Count("export_ok") + Count("export_err")
    /\ active # "import" =>
         Count("import") = Count("import_ok") + Count("import_err")
    /\ active # "export" =>
         Count("export") = Count("export_ok") + Count("export_err")

C1_Witness == active = "export" /\ Count("import_ok") = 1

----------------------------------------------------------------------------
(* C2: the log handed to the export is exactly the value the import        *)
(* returned (it is neither modified nor replaced in between), the import   *)
(* gets the hard-coded input path and the export the hard-coded output     *)
(* path, and the log is used by nothing but that one export call.          *)
C2_LogPassThrough ==
    /\ \A i \in 1..Len(importArgs) : importArgs[i] = in_path
    /\ \A i \in 1..Len(exportArgs) :
         /\ exportArgs[i][2] = out_path
         /\ Len(returned) = 1
         /\ exportArgs[i][1] = returned[1]
    /\ "log" \in DOMAIN env <=> Len(returned) = 1
    /\ "log" \in DOMAIN env => env["log"] = returned[1]
    /\ Len(returned) <= 1
    /\ Len(exportArgs) <= 1

C2_Witness ==
    /\ Count("export_ok") = 1
    /\ returned = <<NumLogs>>
    /\ exportArgs = <<(<<NumLogs, out_path>>)>>

----------------------------------------------------------------------------
(* C3: a failure of the import or of the export is unhandled and ends the  *)
(* run: the call is not retried, no later step runs (after a failed import *)
(* the export is never invoked; after either failure the durations line is *)
(* never printed), and the exit status is not zero.                        *)
C3_FailurePropagates ==
    Raised =>
        /\ outcome = "failed"
        /\ ExitStatus # 0
        /\ Count("import_err") + Count("export_err") = 1
        /\ hist[Len(hist)].ev \in {"import_err", "export_err"}
        /\ ~ENABLED Next
        /\ Count("import") <= 1
        /\ Count("export") <= 1
        /\ Count("import_err") = 1 => Count("export") = 0 /\ exportArgs = <<>>
        /\ DurationLines = {}
        /\ active = "none"

C3_Witness ==
    /\ Count("import_ok") = 1
    /\ Count("export_err") = 1
    /\ outcome = "failed"

----------------------------------------------------------------------------
(* C4: every run comes to an end, and a run in which the import and the    *)
(* export have both returned leads to a normal exit with status zero,      *)
(* having invoked import once, export once and printed the durations line  *)
(* once.                                                                   *)
C4_NormalTermination ==
    /\ <>(outcome # "running")
    /\ (Count("import_ok") = 1 /\ Count("export_ok") = 1) ~>
         /\ outcome = "ok"
         /\ ExitStatus = 0
         /\ Count("import") = 1
         /\ Count("export") = 1
         /\ Cardinality(DurationLines) = 1

C4_Witness ==
    /\ outcome = "ok"
    /\ Count("import_ok") = 1
    /\ Count("export_ok") = 1
    /\ Cardinality(DurationLines) = 1

----------------------------------------------------------------------------
(* C5 as stated: a completed run is exactly the four operations import,    *)
(* timestamp, export, timestamp, so exactly two timestamps are sampled.    *)
C5_Original ==
    outcome = "ok" =>
        /\ Invocations = <<"import", "time", "export", "time">>
        /\ Count("time") = 2

AllOperations ==
    <<"print", "time", "import", "time", "export", "time", "print">>

(* C5 amended: the run is a linear sequence of seven operations, in this   *)
(* order: banner print, timestamp, import, timestamp, export, timestamp,   *)
(* durations print; a failed run is a prefix of it, and a completed run    *)
(* samples exactly three timestamps: one before the import, one between    *)
(* the import and the export, and one after the export.                    *)
C5_SevenOperations ==
    /\ IsPrefix(Invocations, AllOperations)
    /\ outcome = "ok" =>
         /\ Invocations = AllOperations
         /\ Count("time") = 3
    /\ outcome = "failed" => Len(Invocations) \in {3, 5}

C5_Witness ==
    /\ outcome = "ok"
    /\ Count("time") = 3

----------------------------------------------------------------------------
(* C6 as stated: the durations line is the only thing the script prints.   *)
C6_Original ==
    \A i \in 1..Len(stdout) : stdout[i].fmt = "durations"

(* C6 amended: the script prints the banner line naming the two paths and  *)
(* then, only once the export has returned, the durations line, and        *)
(* nothing else (an unhandled failure is reported by the interpreter, on   *)
(* standard error); its only other external effects are one read request   *)
(* for the input path and one write request for the output path.           *)
C6_ConsoleOutput ==
    /\ IsPrefix([i \in 1..Len(stdout) |-> stdout[i].fmt], <<"paths", "durations">>)
    /\ \A i \in BannerLines : stdout[i].a = in_path /\ stdout[i].b = out_path
    /\ DurationLines # {} => Count("export_ok") = 1
    /\ Len(stdout) = Count("print")
    /\ stderr # <<>> => outcome = "failed" /\ Len(stderr) = 1
    /\ Len(importArgs) <= 1
    /\ Len(exportArgs) <= 1
    /\ \A i \in 1..Len(importArgs) : importArgs[i] = in_path
    /\ \A i \in 1..Len(exportArgs) : exportArgs[i][2] = out_path

C6_Witness ==
    /\ outcome = "ok"
    /\ Len(stdout) = 2
    /\ stdout[1].fmt = "paths"
    /\ stdout[2].fmt = "durations"

----------------------------------------------------------------------------
(* C7 as stated: the printed read time is t_m - t_s and the printed write  *)
(* time is t_e - t_m, so the two printed durations add up to t_e - t_s.    *)
C7_Original ==
    \A i \in DurationLines :
        /\ stdout[i].a * TicksPerMilli = env["t_m"] - env["t_s"]
        /\ stdout[i].b * TicksPerMilli = env["t_e"] - env["t_m"]
        /\ stdout[i].a >= 0
        /\ stdout[i].b >= 0
        /\ (stdout[i].a + stdout[i].b) * TicksPerMilli = env["t_e"] - env["t_s"]

(* C7 amended: the printed read time is t_m - t_s and the printed write    *)
(* time is t_e - t_m, each rounded to the nearest millisecond, where t_s   *)
(* is sampled before the import is invoked, t_m is the one sample between  *)
(* the import's return and the export's invocation, and t_e is sampled     *)
(* after the export returns; with a non-decreasing clock both printed      *)
(* durations are non-negative, the unrounded durations add up to           *)
(* t_e - t_s, and the printed ones add up to it within one millisecond.    *)
C7_Durations ==
    \A i \in DurationLines :
        /\ {"t_s", "t_m", "t_e"} \subseteq DOMAIN env
        /\ hist[2].ev = "time" /\ hist[2].at = env["t_s"]
        /\ hist[3].ev = "import"
        /\ hist[4].ev = "import_ok"
        /\ hist[5].ev = "time" /\ hist[5].at = env["t_m"]
        /\ hist[6].ev = "export"
        /\ hist[7].ev = "export_ok"
        /\ hist[8].ev = "time" /\ hist[8].at = env["t_e"]
        /\ Count("time") = 3
        /\ env["t_s"] <= env["t_m"]
        /\ env["t_m"] <= env["t_e"]
        /\ 2 * Abs(stdout[i].a * TicksPerMilli - (env["t_m"] - env["t_s"]))
             <= TicksPerMilli
        /\ 2 * Abs(stdout[i].b * TicksPerMilli - (env["t_e"] - env["t_m"]))
             <= TicksPerMilli
        /\ stdout[i].a >= 0
        /\ stdout[i].b >= 0
        /\ Abs((stdout[i].a + stdout[i].b) * TicksPerMilli
                 - (env["t_e"] - env["t_s"])) <= TicksPerMilli

C7_Witness ==
    /\ DurationLines # {}
    /\ env["t_m"] - env["t_s"] = 1
    /\ env["t_e"] - env["t_m"] = TicksPerMilli

----------------------------------------------------------------------------
(* C8: the input path is only ever handed to the import and the output     *)
(* path only to the export, so no write of the input path and no read of   *)
(* the output path is requested; the write of the output path is requested *)
(* only after a successful import, and not at all when the import fails.   *)
C8_PathsNotCrossed ==
    /\ in_path # out_path
    /\ \A i \in 1..Len(importArgs) :
         importArgs[i] = in_path /\ importArgs[i] # out_path
    /\ \A i \in 1..Len(exportArgs) :
         exportArgs[i][2] = out_path /\ exportArgs[i][2] # in_path
    /\ Len(importArgs) = Count("import")
    /\ Len(exportArgs) = Count("export")
    /\ exportArgs # <<>> => Count("import_ok") = 1 /\ Count("import_err") = 0
    /\ Count("import_err") > 0 => exportArgs = <<>>

C8_Witness ==
    /\ importArgs = <<in_path>>
    /\ Len(exportArgs) = 1
    /\ exportArgs[1][2] = out_path
    /\ Count("export_ok") = 1

----------------------------------------------------------------------------
(* C9: the banner naming the two paths is printed before the first         *)
(* timestamp is sampled and before the import is invoked, so every run     *)
(* prints it, failed runs included, and the time spent printing it is not  *)
(* part of the read duration; the durations line is printed only after the *)
(* export has returned.                                                    *)
C9_BannerFirst ==
    /\ hist # <<>> =>
         /\ hist[1].ev = "print"
         /\ stdout # <<>>
         /\ stdout[1] = [fmt |-> "paths", a |-> in_path, b |-> out_path]
    /\ outcome # "running" => Cardinality(BannerLines) = 1
    /\ "t_s" \in DOMAIN env => hist[1].at <= env["t_s"]
    /\ \A i \in DurationLines :
         \E j \in 1..Len(hist) :
            /\ hist[j].ev = "export_ok"
            /\ hist[Len(hist)].ev = "print"
            /\ j < Len(hist)

C9_Witness ==
    /\ outcome = "failed"
    /\ Count("import_err") = 1
    /\ Cardinality(BannerLines) = 1

====
